---- MODULE Spec2Model ----
(***************************************************************************)
(* A model of the radix tree of dansackett/radix: the node heap, the       *)
(* matcher findMatchedNodeMeta, InsertWord with its label split, Search,   *)
(* GetSuggestions with its depth-first iter, and the fan-out / fan-in of   *)
(* GetSuggestionsForSlice.                                                 *)
(*                                                                         *)
(* Strings are sequences of bytes; a byte is a number of 1..NumChars.      *)
(* A *Node is an index into the heap `nodes`; index 1 is Tree.Root.        *)
(***************************************************************************)
EXTENDS Integers, Sequences, FiniteSets, TLC

\* ------------------------------------------------------------------ bounds
NumChars == 2
MaxLen == 4
MaxInserts == 3
MaxQueries == 3

Chars == 1..NumChars
Words == UNION {[1..n -> Chars] : n \in 0..MaxLen}

\* ----------------------------------------------------------------- strings
\* s[from:] and s[:to] of Go, on 0-based byte offsets
SliceFrom(s, from) == SubSeq(s, from + 1, Len(s))
SliceTo(s, to) == SubSeq(s, 1, to)

IsPrefixOf(p, s) == Len(p) <= Len(s) /\ SliceTo(s, Len(p)) = p

\* ------------------------------------------------------------------- nodes
RootLabel == <<0>>

InitNode(label) ==
    [Label |-> label, Prefix |-> <<>>, Children |-> <<>>,
     IsWordBoundary |-> FALSE, IsRootNode |-> FALSE]

IsWord(n) == n.IsWordBoundary
IsRoot(n) == n.IsRootNode
IsLeaf(n) == Len(n.Children) = 0

Root == 1

InitTree == <<[InitNode(RootLabel) EXCEPT !.IsRootNode = TRUE]>>

\* ----------------------------------------------------------------- matcher
\* the runner of findMatchedNodeMeta: how far query and label agree
RECURSIVE Runner(_, _, _)
Runner(query, label, matchedIdx) ==
    IF /\ matchedIdx < Len(query)
       /\ matchedIdx < Len(label)
       /\ query[matchedIdx + 1] = label[matchedIdx + 1]
    THEN Runner(query, label, matchedIdx + 1)
    ELSE matchedIdx

\* ScanChildren whose recursion passes prefix on instead of prefix+query[:matchedIdx]
RECURSIVE ScanChildren_KeepPrefix(_, _, _, _, _)
ScanChildren_KeepPrefix(ns, query, prefix, currentNode, i) ==
    IF i > Len(ns[currentNode].Children)
    THEN [node |-> currentNode, idx |-> -1, rest |-> query, prefix |-> prefix]
    ELSE LET childNode == ns[currentNode].Children[i]
             matchedIdx == Runner(query, ns[childNode].Label, 0)
         IN  IF matchedIdx = 0
             THEN ScanChildren_KeepPrefix(ns, query, prefix, currentNode, i + 1)
             ELSE IF matchedIdx = Len(ns[childNode].Label)
             THEN ScanChildren_KeepPrefix(ns, SliceFrom(query, matchedIdx),
                                          prefix, childNode, 1)
             ELSE [node |-> childNode, idx |-> matchedIdx,
                   rest |-> query, prefix |-> prefix]

\* the loop over currentNode.Children from the i-th child on, with the
\* recursion into a fully matched child
RECURSIVE ScanChildren(_, _, _, _, _)
ScanChildren(ns, query, prefix, currentNode, i) ==
    IF i > Len(ns[currentNode].Children)
    THEN [node |-> currentNode, idx |-> -1, rest |-> query, prefix |-> prefix]
    ELSE LET childNode == ns[currentNode].Children[i]
             matchedIdx == Runner(query, ns[childNode].Label, 0)
         IN  IF matchedIdx = 0
             THEN ScanChildren(ns, query, prefix, currentNode, i + 1)
             ELSE IF matchedIdx = Len(ns[childNode].Label)
             THEN ScanChildren(ns, SliceFrom(query, matchedIdx),
                               prefix \o SliceTo(query, matchedIdx), childNode, 1)
             ELSE [node |-> childNode, idx |-> matchedIdx,
                   rest |-> query, prefix |-> prefix]

findMatchedNodeMeta(ns, query, prefix, currentNode) ==
    ScanChildren(ns, query, prefix, currentNode, 1)

\* ---------------------------------------------------------------- inserter
\* InsertLeaf without line 95: the new leaf is not marked as a word
InsertLeaf_Unmarked(ns, m) ==
    Append([ns EXCEPT ![m.node].Prefix = m.prefix,
                      ![m.node].Children = Append(@, Len(ns) + 1)],
           InitNode(m.rest))

\* InsertLeaf that puts the new leaf in front of the other children
InsertLeaf_Prepend(ns, m) ==
    Append([ns EXCEPT ![m.node].Prefix = m.prefix,
                      ![m.node].Children = <<Len(ns) + 1>> \o @],
           [InitNode(m.rest) EXCEPT !.IsWordBoundary = TRUE])

\* the no-match branch: the rest of the word becomes a new leaf
InsertLeaf(ns, m) ==
    LET newNode == [InitNode(m.rest) EXCEPT !.IsWordBoundary = TRUE]
        newId == Len(ns) + 1
    IN  Append([ns EXCEPT ![m.node].Prefix = m.prefix,
                          ![m.node].Children = Append(@, newId)],
               newNode)

\* InsertSplit without line 110: the split node keeps its word-boundary flag
InsertSplit_KeepFlag(ns, m) ==
    LET matchedNode == ns[m.node]
        restLabelNode == [InitNode(SliceFrom(matchedNode.Label, m.idx)) EXCEPT
                             !.Prefix = matchedNode.Label,
                             !.IsWordBoundary = IsWord(matchedNode),
                             !.Children = matchedNode.Children]
        restWord == SliceFrom(m.rest, m.idx)
        restWordNode == [InitNode(restWord) EXCEPT !.IsWordBoundary = TRUE]
        shrunk == [matchedNode EXCEPT !.Label = SliceTo(m.rest, m.idx),
                                      !.Prefix = SliceTo(m.rest, m.idx)]
    IN  IF restWord # <<>>
        THEN Append(Append([ns EXCEPT ![m.node] =
                                [shrunk EXCEPT !.Children = <<Len(ns) + 1, Len(ns) + 2>>]],
                           restLabelNode),
                    restWordNode)
        ELSE Append([ns EXCEPT ![m.node] =
                         [shrunk EXCEPT !.Children = <<Len(ns) + 1>>]],
                    restLabelNode)

\* InsertSplit whose second child carries restWord instead of restWord[matchedIdx:]
InsertSplit_WholeRest(ns, m) ==
    LET matchedNode == ns[m.node]
        restLabelNode == [InitNode(SliceFrom(matchedNode.Label, m.idx)) EXCEPT
                             !.Prefix = matchedNode.Label,
                             !.IsWordBoundary = IsWord(matchedNode),
                             !.Children = matchedNode.Children]
        restWordNode == [InitNode(m.rest) EXCEPT !.IsWordBoundary = TRUE]
        shrunk == [matchedNode EXCEPT !.Label = SliceTo(m.rest, m.idx),
                                      !.Prefix = SliceTo(m.rest, m.idx),
                                      !.IsWordBoundary = FALSE]
    IN  IF SliceFrom(m.rest, m.idx) # <<>>
        THEN Append(Append([ns EXCEPT ![m.node] =
                                [shrunk EXCEPT !.Children = <<Len(ns) + 1, Len(ns) + 2>>]],
                           restLabelNode),
                    restWordNode)
        ELSE Append([ns EXCEPT ![m.node] =
                         [shrunk EXCEPT !.Children = <<Len(ns) + 1>>]],
                    restLabelNode)

\* InsertSplit without line 119: the old label's tail loses the word flag
InsertSplit_DropsFlag(ns, m) ==
    LET matchedNode == ns[m.node]
        restLabelNode == [InitNode(SliceFrom(matchedNode.Label, m.idx)) EXCEPT
                             !.Prefix = matchedNode.Label,
                             !.Children = matchedNode.Children]
        restWord == SliceFrom(m.rest, m.idx)
        restWordNode == [InitNode(restWord) EXCEPT !.IsWordBoundary = TRUE]
        shrunk == [matchedNode EXCEPT !.Label = SliceTo(m.rest, m.idx),
                                      !.Prefix = SliceTo(m.rest, m.idx),
                                      !.IsWordBoundary = FALSE]
    IN  IF restWord # <<>>
        THEN Append(Append([ns EXCEPT ![m.node] =
                                [shrunk EXCEPT !.Children = <<Len(ns) + 1, Len(ns) + 2>>]],
                           restLabelNode),
                    restWordNode)
        ELSE Append([ns EXCEPT ![m.node] =
                         [shrunk EXCEPT !.Children = <<Len(ns) + 1>>]],
                    restLabelNode)

\* InsertSplit without line 120: the children stay behind on no node
InsertSplit_DropsChildren(ns, m) ==
    LET matchedNode == ns[m.node]
        restLabelNode == [InitNode(SliceFrom(matchedNode.Label, m.idx)) EXCEPT
                             !.Prefix = matchedNode.Label,
                             !.IsWordBoundary = IsWord(matchedNode)]
        restWord == SliceFrom(m.rest, m.idx)
        restWordNode == [InitNode(restWord) EXCEPT !.IsWordBoundary = TRUE]
        shrunk == [matchedNode EXCEPT !.Label = SliceTo(m.rest, m.idx),
                                      !.Prefix = SliceTo(m.rest, m.idx),
                                      !.IsWordBoundary = FALSE]
    IN  IF restWord # <<>>
        THEN Append(Append([ns EXCEPT ![m.node] =
                                [shrunk EXCEPT !.Children = <<Len(ns) + 1, Len(ns) + 2>>]],
                           restLabelNode),
                    restWordNode)
        ELSE Append([ns EXCEPT ![m.node] =
                         [shrunk EXCEPT !.Children = <<Len(ns) + 1>>]],
                    restLabelNode)

\* the partial-match branch: the matched node's label is split
InsertSplit(ns, m) ==
    LET matchedNode == ns[m.node]
        cachedIsWord == IsWord(matchedNode)
        cachedLabel == matchedNode.Label
        restLabelNode == [InitNode(SliceFrom(cachedLabel, m.idx)) EXCEPT
                             !.Prefix = cachedLabel,
                             !.IsWordBoundary = cachedIsWord,
                             !.Children = matchedNode.Children]
        restLabelId == Len(ns) + 1
        restWord == SliceFrom(m.rest, m.idx)
        restWordNode == [InitNode(restWord) EXCEPT !.IsWordBoundary = TRUE]
        restWordId == Len(ns) + 2
        shrunk == [matchedNode EXCEPT !.Label = SliceTo(m.rest, m.idx),
                                      !.Prefix = SliceTo(m.rest, m.idx),
                                      !.IsWordBoundary = FALSE]
    IN  IF restWord # <<>>
        THEN Append(Append([ns EXCEPT ![m.node] =
                                [shrunk EXCEPT !.Children = <<restLabelId, restWordId>>]],
                           restLabelNode),
                    restWordNode)
        ELSE Append([ns EXCEPT ![m.node] =
                         [shrunk EXCEPT !.Children = <<restLabelId>>]],
                    restLabelNode)

\* InsertWord without the "already in the tree" return of lines 91-93
InsertWord_NoDuplicateCheck(ns, word) ==
    LET m == findMatchedNodeMeta(ns, word, <<>>, Root)
    IN  IF m.idx = -1 THEN InsertLeaf(ns, m) ELSE InsertSplit(ns, m)

InsertWord(ns, word) ==
    LET m == findMatchedNodeMeta(ns, word, <<>>, Root)
    IN  IF m.idx = -1
        THEN IF Len(m.rest) = 0 THEN ns ELSE InsertLeaf(ns, m)
        ELSE InsertSplit(ns, m)

\* ----------------------------------------------------------------- querier
Search(ns, query) ==
    LET m == findMatchedNodeMeta(ns, query, <<>>, Root)
    IN  Len(m.rest) = 0 /\ IsWord(ns[m.node])

\* what iter sends on its channel, in order, for the subtree of node
RECURSIVE iter(_, _, _), IterChildren(_, _, _, _)
\* iter that sends a node's own word after the words of its children
iter_OwnWordLast(ns, node, currentWord) ==
    IterChildren(ns, node, currentWord, 1)
        \o (IF IsWord(ns[node]) THEN <<currentWord>> ELSE <<>>)

iter(ns, node, currentWord) ==
    (IF IsWord(ns[node]) THEN <<currentWord>> ELSE <<>>)
        \o IterChildren(ns, node, currentWord, 1)
IterChildren(ns, node, currentWord, i) ==
    IF i > Len(ns[node].Children) THEN <<>>
    ELSE LET child == ns[node].Children[i]
         IN  iter(ns, child, currentWord \o ns[child].Label)
                 \o IterChildren(ns, node, currentWord, i + 1)

GetSuggestions(ns, query) ==
    LET m == findMatchedNodeMeta(ns, query, <<>>, Root)
        matchedNode == ns[m.node]
        prefix == IF /\ m.idx > 0
                     /\ m.idx < Len(matchedNode.Label)
                     /\ m.idx = Len(m.rest)
                     /\ Len(m.rest) > 0
                  THEN IF IsLeaf(matchedNode)
                       THEN m.prefix \o matchedNode.Label
                       ELSE matchedNode.Prefix
                  ELSE m.prefix
    IN  IF m.idx < Len(m.rest) /\ Len(m.rest) > 0
        THEN <<>>
        ELSE iter(ns, m.node, prefix)

\* what the channel of Iter delivers before it is closed
Iter(ns) == iter(ns, Root, <<>>)

\* -------------------------------------------------------------- aggregator
\* a < b of Go strings: byte-wise, a proper prefix first
RECURSIVE StrLess(_, _)
StrLess(a, b) ==
    IF b = <<>> THEN FALSE
    ELSE IF a = <<>> THEN TRUE
    ELSE IF Head(a) # Head(b) THEN Head(a) < Head(b)
    ELSE StrLess(Tail(a), Tail(b))

\* sort.Strings: the strings of list in ascending order
RECURSIVE SortInsert(_, _), SortStrings(_)
SortInsert(sorted, x) ==
    IF sorted = <<>> THEN <<x>>
    ELSE IF StrLess(x, Head(sorted)) THEN <<x>> \o sorted
    ELSE <<Head(sorted)>> \o SortInsert(Tail(sorted), x)
SortStrings(list) ==
    IF list = <<>> THEN <<>>
    ELSE SortInsert(SortStrings(Tail(list)), Head(list))

\* the orders in which a range over a map with the keys of S can visit them
MapOrders(S) ==
    {o \in [1..Cardinality(S) -> S] : \A i, j \in 1..Cardinality(S) : i # j => o[i] # o[j]}

\* ------------------------------------------------------------------- state
VARIABLES
    nodes,          \* the heap of the tree's nodes; nodes[Root] is Tree.Root
    inserted,       \* history: the words passed to InsertWord so far, in call order
    call,           \* the last InsertWord call: its argument and its matcher result
    queries,        \* GetSuggestionsForSlice: its argument
    cpc,            \* GetSuggestionsForSlice: where the calling goroutine is
    spawned,        \* how many workers the "for _, query" loop has started
    wpc,            \* per worker goroutine: where it is
    wres,           \* per worker goroutine: what its GetSuggestions returned
    ch,             \* the buffered channel's queue
    closed,         \* close(ch) has run
    queriesLeft,
    suggestionsMap, \* the keys of the map
    results,        \* the returned slice
    ret             \* what the last call of Search, GetSuggestions or Iter returned

treeVars == <<nodes, inserted, call>>
sliceVars == <<queries, cpc, spawned, wpc, wres, ch, closed, queriesLeft,
               suggestionsMap, results>>
vars == <<nodes, inserted, call, queries, cpc, spawned, wpc, wres, ch, closed,
          queriesLeft, suggestionsMap, results, ret>>

NoCall == [word |-> <<>>, node |-> 0, idx |-> -1, rest |-> <<>>, prefix |-> <<>>]

\* the record kept of a call InsertWord(word) on the tree ns
CallOf(ns, word) ==
    LET m == findMatchedNodeMeta(ns, word, <<>>, Root)
    IN  [word |-> word, node |-> m.node, idx |-> m.idx,
         rest |-> m.rest, prefix |-> m.prefix]

\* no call of GetSuggestionsForSlice is under way
SliceIdle ==
    /\ queries = <<>>
    /\ cpc = "idle"
    /\ spawned = 0
    /\ wpc = <<>>
    /\ wres = <<>>
    /\ ch = <<>>
    /\ closed = FALSE
    /\ queriesLeft = 0
    /\ suggestionsMap = {}
    /\ results = <<>>

NoRet == [op |-> "none", found |-> FALSE, words |-> <<>>]

Init ==
    /\ nodes = InitTree
    /\ inserted = <<>>
    /\ call = NoCall
    /\ SliceIdle
    /\ ret = NoRet

DoInsertWord(word) ==
    /\ Len(inserted) < MaxInserts
    /\ nodes' = InsertWord(nodes, word)
    /\ inserted' = Append(inserted, word)
    /\ call' = CallOf(nodes, word)
    /\ UNCHANGED <<sliceVars, ret>>

Next == \E word \in Words : DoInsertWord(word)

Spec == Init /\ [][Next]_vars

\* ----------------------------------------------- GetSuggestionsForSlice
\* the tree InitTreeFromDict builds from the words of a dictionary
RECURSIVE InitTreeFromDict(_)
InitTreeFromDict(words) ==
    IF words = <<>> THEN InitTree
    ELSE InsertWord(InitTreeFromDict(SubSeq(words, 1, Len(words) - 1)),
                    words[Len(words)])

\* the dictionaries the batch runs on: none, "ab" "aa" "b", and "aa" "a" "ab"
SliceDicts ==
    {<<>>, <<<<1, 2>>, <<1, 1>>, <<2>>>>, <<<<1, 1>>, <<1>>, <<1, 2>>>>}
\* the queries of a batch: "", "a", "ab", "ba"
SliceQueries == {<<>>, <<1>>, <<1, 2>>, <<2, 1>>}
QueryLists == UNION {[1..n -> SliceQueries] : n \in 0..MaxQueries}

\* a call GetSuggestionsForSlice(queries) has run lines 180-182
SliceInit ==
    /\ inserted \in SliceDicts
    /\ nodes = InitTreeFromDict(inserted)
    /\ call = IF inserted = <<>> THEN NoCall
              ELSE CallOf(InitTreeFromDict(SubSeq(inserted, 1, Len(inserted) - 1)),
                          inserted[Len(inserted)])
    /\ queries \in QueryLists
    /\ cpc = "spawn"
    /\ spawned = 0
    /\ wpc = [i \in 1..Len(queries) |-> "unborn"]
    /\ wres = [i \in 1..Len(queries) |-> <<>>]
    /\ ch = <<>>
    /\ closed = FALSE
    /\ queriesLeft = Len(queries)
    /\ suggestionsMap = {}
    /\ results = <<>>
    /\ ret = NoRet

\* one turn of the loop of lines 184-188: a go statement
Spawn ==
    /\ cpc = "spawn"
    /\ spawned < Len(queries)
    /\ spawned' = spawned + 1
    /\ wpc' = [wpc EXCEPT ![spawned + 1] = "run"]
    /\ UNCHANGED <<treeVars, ret, queries, cpc, wres, ch, closed, queriesLeft,
                   suggestionsMap, results>>

\* the loop of lines 184-188 is over: line 191
SpawnDone ==
    /\ cpc = "spawn"
    /\ spawned = Len(queries)
    /\ cpc' = "recv"
    /\ UNCHANGED <<treeVars, ret, queries, spawned, wpc, wres, ch, closed, queriesLeft,
                   suggestionsMap, results>>

\* WorkerRun whose GetSuggestions caches the prefix on the matched node, as
\* InsertWord does on line 96
WorkerRun_CachesPrefix(i) ==
    /\ wpc[i] = "run"
    /\ wres' = [wres EXCEPT ![i] = GetSuggestions(nodes, queries[i])]
    /\ wpc' = [wpc EXCEPT ![i] = "send"]
    /\ LET m == findMatchedNodeMeta(nodes, queries[i], <<>>, Root)
       IN  nodes' = [nodes EXCEPT ![m.node].Prefix = m.prefix]
    /\ UNCHANGED <<inserted, call, ret, queries, cpc, spawned, ch, closed, queriesLeft,
                   suggestionsMap, results>>

\* worker i evaluates tree.GetSuggestions(query)
WorkerRun(i) ==
    /\ wpc[i] = "run"
    /\ wres' = [wres EXCEPT ![i] = GetSuggestions(nodes, queries[i])]
    /\ wpc' = [wpc EXCEPT ![i] = "send"]
    /\ UNCHANGED <<treeVars, ret, queries, cpc, spawned, ch, closed, queriesLeft,
                   suggestionsMap, results>>

\* WorkerSend on a channel made with room for one result only
WorkerSend_RoomForOne(i) ==
    /\ wpc[i] = "send"
    /\ closed \/ Len(ch) < 1
    /\ IF closed
       THEN wpc' = [wpc EXCEPT ![i] = "panic"] /\ ch' = ch
       ELSE wpc' = [wpc EXCEPT ![i] = "done"] /\ ch' = Append(ch, wres[i])
    /\ UNCHANGED <<treeVars, ret, queries, cpc, spawned, wres, closed, queriesLeft,
                   suggestionsMap, results>>

\* worker i sends on ch: it waits while the buffer is full, and a send on a
\* closed channel panics
WorkerSend(i) ==
    /\ wpc[i] = "send"
    /\ closed \/ Len(ch) < Len(queries)
    /\ IF closed
       THEN wpc' = [wpc EXCEPT ![i] = "panic"] /\ ch' = ch
       ELSE wpc' = [wpc EXCEPT ![i] = "done"] /\ ch' = Append(ch, wres[i])
    /\ UNCHANGED <<treeVars, ret, queries, cpc, spawned, wres, closed, queriesLeft,
                   suggestionsMap, results>>

\* Receive whose loop exit tests queriesLeft <= 1
Receive_LeavesEarly ==
    /\ cpc = "recv"
    /\ ch # <<>>
    /\ ch' = Tail(ch)
    /\ queriesLeft' = queriesLeft - 1
    /\ suggestionsMap' = suggestionsMap \cup {Head(ch)[k] : k \in 1..Len(Head(ch))}
    /\ cpc' = IF queriesLeft' <= 1 THEN "close" ELSE "recv"
    /\ UNCHANGED <<treeVars, ret, queries, spawned, wpc, wres, closed, results>>

\* one turn of the loop of lines 193-205: a receive from ch and its body
Receive ==
    /\ cpc = "recv"
    /\ ch # <<>>
    /\ ch' = Tail(ch)
    /\ queriesLeft' = queriesLeft - 1
    /\ suggestionsMap' = suggestionsMap \cup {Head(ch)[k] : k \in 1..Len(Head(ch))}
    /\ cpc' = IF queriesLeft' = 0 THEN "close" ELSE "recv"
    /\ UNCHANGED <<treeVars, ret, queries, spawned, wpc, wres, closed, results>>

\* line 207
Close ==
    /\ cpc = "close"
    /\ closed' = TRUE
    /\ cpc' = "gather"
    /\ UNCHANGED <<treeVars, ret, queries, spawned, wpc, wres, ch, queriesLeft,
                   suggestionsMap, results>>

\* lines 210-218: the keys of the map in the order the range visits them,
\* sorted, returned
GatherAndSort ==
    /\ cpc = "gather"
    /\ \E order \in MapOrders(suggestionsMap) : results' = SortStrings(order)
    /\ cpc' = "done"
    /\ UNCHANGED <<treeVars, ret, queries, spawned, wpc, wres, ch, closed, queriesLeft,
                   suggestionsMap>>

SliceNext ==
    \/ Spawn
    \/ SpawnDone
    \/ \E i \in 1..Len(queries) : WorkerRun(i)
    \/ \E i \in 1..Len(queries) : WorkerSend(i)
    \/ Receive
    \/ Close
    \/ GatherAndSort

SliceSpec == SliceInit /\ [][SliceNext]_vars

\* ------------------------------------------- single queries beside a batch
\* a call Search(query) by another goroutine
DoSearch(query) ==
    /\ ret' = [op |-> "Search", found |-> Search(nodes, query), words |-> <<>>]
    /\ UNCHANGED <<treeVars, sliceVars>>

\* a call GetSuggestions(query) by another goroutine
DoGetSuggestions(query) ==
    /\ ret' = [op |-> "GetSuggestions", found |-> FALSE,
               words |-> GetSuggestions(nodes, query)]
    /\ UNCHANGED <<treeVars, sliceVars>>

\* a call Iter() by another goroutine, its channel read until it is closed
DoIter ==
    /\ ret' = [op |-> "Iter", found |-> FALSE, words |-> Iter(nodes)]
    /\ UNCHANGED <<treeVars, sliceVars>>

QueryNext ==
    \/ \E query \in SliceQueries : DoSearch(query)
    \/ \E query \in SliceQueries : DoGetSuggestions(query)
    \/ DoIter

ReadSpec == SliceInit /\ [][SliceNext \/ QueryNext]_vars

\* ------------------------------------------------------------ shorthands
InsertedSet == {inserted[i] : i \in 1..Len(inserted)}
Range(s) == {s[i] : i \in 1..Len(s)}
NonRoot == 2..Len(nodes)
Meta(query) == findMatchedNodeMeta(nodes, query, <<>>, Root)
\* the last call split a label and the inserted word ended at the split point
PrefixSplitCall == call.idx > 0 /\ SliceFrom(call.rest, call.idx) = <<>>

\* ------------------------------------------------------------------ claims
\* C1: after inserting the words of W in any order, Search(w) is true for
\* every (non-empty) w of W.
C1_SearchFindsInserted ==
    \A w \in InsertedSet : w # <<>> => Search(nodes, w)

\* C2: Search(s) is false for every string s that was never inserted: the
\* empty string, strict prefixes, superstrings, strings ending inside a label.
C2_SearchRejectsOthers ==
    \A s \in Words : Search(nodes, s) => s \in InsertedSet

C2_Witness ==
    /\ \E s \in Words \ InsertedSet :       \* ends on a node boundary below the root
          /\ Meta(s).idx = -1 /\ Meta(s).rest = <<>> /\ Meta(s).node # Root
          /\ ~Search(nodes, s)
    /\ \E s \in Words \ InsertedSet :       \* ends partway through a label
          /\ Meta(s).idx > 0 /\ Meta(s).idx = Len(Meta(s).rest)
          /\ ~Search(nodes, s)
    /\ \E s \in Words \ InsertedSet :       \* a superstring of an inserted word
          /\ \E w \in InsertedSet : w # <<>> /\ IsPrefixOf(w, s)
          /\ ~Search(nodes, s)
    /\ <<>> \notin InsertedSet /\ ~Search(nodes, <<>>)

\* C3: when the inserted word p is a strict prefix of a stored word and ends
\* partway through a label, the split node spells p, is a word boundary, has
\* the rest-of-label node as its single child, and no leaf was made for p.
C3_PrefixSplitMarksNode ==
    PrefixSplitCall =>
        /\ call.prefix \o nodes[call.node].Label = call.word
        /\ nodes[call.node].IsWordBoundary
        /\ Len(nodes[call.node].Children) = 1

\* C4: every string of GetSuggestions(p), p non-empty, starts with p and is
\* an inserted word.
C4_SuggestionsSound ==
    \A p \in Words \ {<<>>} :
        \A s \in Range(GetSuggestions(nodes, p)) :
            IsPrefixOf(p, s) /\ s \in InsertedSet

\* C5: every inserted word w is among GetSuggestions(p) for every non-empty
\* prefix p of w, p = w included.
C5_SuggestionsComplete ==
    \A w \in InsertedSet : \A n \in 1..Len(w) :
        w \in Range(GetSuggestions(nodes, SliceTo(w, n)))

\* C6: every non-root label is non-empty, no two children of a node begin
\* with the same byte, and so the child scan matches at most one child.
C6_SiblingsDisjoint ==
    /\ \A n \in NonRoot : nodes[n].Label # <<>>
    /\ \A n \in 1..Len(nodes) :
          LET kids == nodes[n].Children
          IN  /\ \A i, j \in 1..Len(kids) :
                    i # j => nodes[kids[i]].Label[1] # nodes[kids[j]].Label[1]
              /\ \A q \in Words :
                    Cardinality({i \in 1..Len(kids) :
                                    Runner(q, nodes[kids[i]].Label, 0) > 0}) <= 1

C6_Witness ==
    /\ Len(nodes[Root].Children) >= 2
    /\ \E n \in NonRoot : Len(nodes[n].Children) = 2
    /\ call.idx > 0

\* C7: no node other than the root has exactly one child while not being a
\* word boundary.
C7_NoUnmergedChain ==
    \A n \in NonRoot :
        ~(Len(nodes[n].Children) = 1 /\ ~nodes[n].IsWordBoundary)

\* C8: InsertWord of a word that was already passed to InsertWord, and of
\* the empty word, leaves the tree as it is.
C8_InsertIdempotent ==
    \A w \in InsertedSet \cup {<<>>} : InsertWord(nodes, w) = nodes

C8_Witness ==
    /\ Len(inserted) = 3
    /\ inserted[3] = inserted[1] /\ inserted[1] # <<>>
    /\ call.word = inserted[3]
    /\ Len(nodes) >= 4          \* the second call split the first word's node

\* C9: GetSuggestionsForSlice(Q), Q non-empty, returns the union of
\* GetSuggestions(q) for q in Q, every word once, in ascending order,
\* whatever the order in which the workers ran and sent.
C9_BatchIsSortedUnion ==
    cpc = "done" =>
        /\ \A i \in 1..Len(results) - 1 : StrLess(results[i], results[i + 1])
        /\ Range(results) =
              UNION {Range(GetSuggestions(nodes, queries[i])) : i \in 1..Len(queries)}

C9_Witness ==
    /\ cpc = "done"
    /\ Len(queries) >= 3
    /\ Len(results) >= 3
    /\ \E i, j \in 1..Len(queries) :        \* two workers found a common word
          /\ wres[i] # wres[j]
          /\ Range(wres[i]) \cap Range(wres[j]) # {}
    /\ \E i \in 1..Len(queries) : wres[i] = <<>>
    /\ \E i \in 1..Len(queries) : wres[i] # SortStrings(wres[i])

\* C10: GetSuggestionsForSlice(Q) returns for every list Q, the empty list
\* included: until it has returned, some goroutine of the call can take a step.
C10_BatchTerminates ==
    cpc = "done" \/ ENABLED SliceNext

\* C11: the channel of Iter() delivers every inserted (non-empty) word
\* exactly once and no other string.
C11_IterDeliversInserted ==
    LET out == Iter(nodes)
    IN  /\ \A i, j \in 1..Len(out) : i # j => out[i] # out[j]
        /\ Range(out) = InsertedSet \ {<<>>}

\* the node whose child list holds n, and the labels from the root down to n
ParentOf(ns, n) ==
    CHOOSE p \in 1..Len(ns) : \E i \in 1..Len(ns[p].Children) : ns[p].Children[i] = n
RECURSIVE PathLabel(_, _)
PathLabel(ns, n) ==
    IF n = Root THEN <<>> ELSE PathLabel(ns, ParentOf(ns, n)) \o ns[n].Label

\* C13: every non-root node with a child has as Prefix the concatenation of
\* the labels from the root down to and including the node.
C13_PrefixIsFullPath ==
    \A n \in NonRoot :
        nodes[n].Children # <<>> => nodes[n].Prefix = PathLabel(nodes, n)

\* n lies in the subtree of start; the child indexes and the labels on the
\* way from start down to n
RECURSIVE InSubtree(_, _, _), IndexPath(_, _, _), RelLabel(_, _, _)
InSubtree(ns, start, n) ==
    n = start \/ (n # Root /\ InSubtree(ns, start, ParentOf(ns, n)))
IndexPath(ns, start, n) ==
    IF n = start THEN <<>>
    ELSE LET p == ParentOf(ns, n)
         IN  IndexPath(ns, start, p)
                 \o <<CHOOSE i \in 1..Len(ns[p].Children) : ns[p].Children[i] = n>>
RelLabel(ns, start, n) ==
    IF n = start THEN <<>> ELSE RelLabel(ns, start, ParentOf(ns, n)) \o ns[n].Label

\* the word-boundary nodes below (and including) start
BoundaryNodes(ns, start) ==
    {n \in 1..Len(ns) : InSubtree(ns, start, n) /\ ns[n].IsWordBoundary}
\* the place of n among them in depth-first pre-order: a node before its
\* descendants, the subtrees of the children in child-list order
PreOrderRank(ns, start, n) ==
    1 + Cardinality({k \in BoundaryNodes(ns, start) :
                        StrLess(IndexPath(ns, start, k), IndexPath(ns, start, n))})

\* GetSuggestions(q) went on to traverse the subtree of Meta(q).node
Traverses(q) == ~(Meta(q).idx < Len(Meta(q).rest) /\ Len(Meta(q).rest) > 0)

\* C12: GetSuggestions returns the words of the word-boundary nodes of the
\* traversed subtree in depth-first pre-order, each once, and does not sort.
C12_SuggestionsInPreOrder ==
    \A q \in Words :
        LET r == GetSuggestions(nodes, q)
            start == Meta(q).node
            B == BoundaryNodes(nodes, start)
        IN  IF ~Traverses(q) THEN r = <<>>
            ELSE /\ Len(r) = Cardinality(B)
                 /\ \A i, j \in 1..Len(r) : i # j => r[i] # r[j]
                 /\ \A n \in B :
                       LET w == r[PreOrderRank(nodes, start, n)]
                           rel == RelLabel(nodes, start, n)
                       IN  /\ Len(w) >= Len(rel)
                           /\ SliceFrom(w, Len(w) - Len(rel)) = rel
                           \* all words extend the same prefix
                           /\ \A k \in B :
                                 LET w2 == r[PreOrderRank(nodes, start, k)]
                                     rel2 == RelLabel(nodes, start, k)
                                 IN  SliceTo(w, Len(w) - Len(rel))
                                        = SliceTo(w2, Len(w2) - Len(rel2))

C12_Witness ==
    \E q \in Words \ {<<>>} :
        LET r == GetSuggestions(nodes, q)
        IN  /\ Traverses(q)
            /\ Len(r) >= 3
            /\ r[1] = q /\ IsWord(nodes[Meta(q).node])   \* own word first
            /\ r # SortStrings(r)                        \* left unsorted

\* the last call split a label and hung the rest of the word beside its tail
BranchSplitCall == call.idx > 0 /\ SliceFrom(call.rest, call.idx) # <<>>
\* the last call found no child to follow and had a rest of the word left
NewLeafCall == call.idx = -1 /\ call.rest # <<>>

\* C14: a call that diverges at index i inside a node's label, with a rest
\* of the word left, leaves the node with the shared i bytes as label, not a
\* word boundary, and two children: the old label's tail with the old flag
\* and the old child list, then a childless word-boundary node for the rest.
C14_SplitStep ==
    BranchSplitCall' =>
        LET i == call'.idx
            old == nodes[call'.node]
            new == nodes'[call'.node]
        IN  /\ 0 < i /\ i < Len(old.Label)
            /\ new.Label = SliceTo(old.Label, i)
            /\ new.Label = SliceTo(call'.rest, i)
            /\ ~new.IsWordBoundary
            /\ Len(new.Children) = 2
            /\ new.Children[1] = Len(nodes) + 1 /\ new.Children[2] = Len(nodes) + 2
            /\ Len(nodes') = Len(nodes) + 2
            /\ nodes'[new.Children[1]].Label = SliceFrom(old.Label, i)
            /\ nodes'[new.Children[1]].IsWordBoundary = old.IsWordBoundary
            /\ nodes'[new.Children[1]].Children = old.Children
            /\ nodes'[new.Children[2]].Label = SliceFrom(call'.rest, i)
            /\ nodes'[new.Children[2]].IsWordBoundary
            /\ nodes'[new.Children[2]].Children = <<>>

C14_SplitShape == [][C14_SplitStep]_vars

C14_Witness ==
    /\ BranchSplitCall
    /\ Len(nodes[call.node].Children) = 2
    /\ LET k == nodes[call.node].Children[1]
       IN  nodes[k].Children # <<>> /\ nodes[k].IsWordBoundary

\* C15: InsertWord removes no node and changes only the node at which the
\* matcher stopped; with no child to follow and a rest of the word left it
\* appends one word-boundary leaf labelled with the rest as that node's
\* last child.
C15_FrameStep ==
    /\ Len(nodes') >= Len(nodes)
    /\ \A n \in 1..Len(nodes) : n # call'.node => nodes'[n] = nodes[n]
    /\ NewLeafCall' =>
          LET old == nodes[call'.node]
              new == nodes'[call'.node]
              leaf == Len(nodes) + 1
          IN  /\ Len(nodes') = leaf
              /\ new.Label = old.Label
              /\ new.IsWordBoundary = old.IsWordBoundary
              /\ new.Children = Append(old.Children, leaf)
              /\ nodes'[leaf].Label = call'.rest
              /\ nodes'[leaf].IsWordBoundary
              /\ nodes'[leaf].Children = <<>>

C15_InsertFrame == [][C15_FrameStep]_vars

C15_Witness ==
    /\ NewLeafCall
    /\ call.node # Root
    /\ Len(nodes[call.node].Children) >= 2
    /\ nodes[call.node].Children[Len(nodes[call.node].Children)] = Len(nodes)
    /\ nodes[Len(nodes)].Label = call.rest

\* C18: a string Search finds is found after every further InsertWord.
C18_SearchStep ==
    \A w \in Words : Search(nodes, w) => Search(nodes', w)

C18_SearchMonotonic == [][C18_SearchStep]_vars

\* the last call split a word-boundary node that had children, and the
\* word that ended there is still found
C18_Witness ==
    /\ call.idx > 0
    /\ LET k == nodes[call.node].Children[1]
       IN  /\ nodes[k].IsWordBoundary
           /\ nodes[k].Children # <<>>
           /\ Search(nodes, PathLabel(nodes, k))
           /\ PathLabel(nodes, k) \in InsertedSet

\* C19: every non-root node without children is a word boundary.
C19_LeavesAreWords ==
    \A n \in NonRoot : IsLeaf(nodes[n]) => nodes[n].IsWordBoundary

C19_Witness ==
    /\ Len(nodes) >= 6
    /\ call.idx > 0
    /\ IsLeaf(nodes[nodes[call.node].Children[1]])
    /\ \E q \in Words :        \* the leaf branch of GetSuggestions' partial-label case
          /\ Meta(q).idx > 0 /\ Meta(q).idx = Len(Meta(q).rest)
          /\ IsLeaf(nodes[Meta(q).node])
          /\ GetSuggestions(nodes, q) = <<Meta(q).prefix \o nodes[Meta(q).node].Label>>

\* C20: findMatchedNodeMeta(q, "", root) returns (node, idx, rest, prefix)
\* with prefix + rest = q and prefix the labels of the fully matched path;
\* idx = -1: node ends that path and none of its children begins with the
\* first byte of rest; otherwise 0 < idx < len(node.Label), node is a child
\* of the path's end and agrees with rest on the first idx bytes.
C20_MatcherResult ==
    \A q \in Words :
        LET m == findMatchedNodeMeta(nodes, q, <<>>, Root)
            label == nodes[m.node].Label
            kids == nodes[m.node].Children
        IN  /\ m.prefix \o m.rest = q
            /\ IF m.idx = -1
               THEN /\ m.prefix = PathLabel(nodes, m.node)
                    /\ \A i \in 1..Len(kids) :
                          m.rest = <<>> \/ nodes[kids[i]].Label[1] # m.rest[1]
               ELSE /\ 0 < m.idx /\ m.idx < Len(label)
                    /\ m.node # Root
                    /\ m.prefix = PathLabel(nodes, ParentOf(nodes, m.node))
                    /\ SliceTo(m.rest, m.idx) = SliceTo(label, m.idx)

C20_Witness ==
    /\ \E q \in Words :        \* stops inside a label below the first level
          Meta(q).idx > 0 /\ Meta(q).prefix # <<>> /\ Meta(q).idx < Len(Meta(q).rest)
    /\ \E q \in Words :        \* stops at a node with children, none of which fits
          /\ Meta(q).idx = -1 /\ Meta(q).rest # <<>>
          /\ Meta(q).node # Root /\ nodes[Meta(q).node].Children # <<>>

\* the workers that have sent their result
Sent == {i \in 1..Len(queries) : wpc[i] = "done"}

\* C16: the collector receives one result list from each worker before it
\* closes the channel and returns; no worker waits on its send, none sends
\* on the closed channel, nothing is returned while a worker still runs.
C16_JoinBarrier ==
    /\ \A i \in 1..Len(queries) :
          /\ wpc[i] # "panic"
          /\ wpc[i] = "send" => ~closed /\ ENABLED WorkerSend(i)
    /\ Len(ch) + (Len(queries) - queriesLeft) = Cardinality(Sent)
    /\ cpc \in {"close", "gather", "done"} =>
          /\ Sent = 1..Len(queries)
          /\ queriesLeft = 0 /\ ch = <<>>
          /\ suggestionsMap = UNION {Range(wres[i]) : i \in 1..Len(queries)}
    /\ closed => cpc \in {"gather", "done"}

C16_Witness ==
    /\ cpc = "done" /\ closed
    /\ Len(queries) >= 3
    /\ Sent = 1..Len(queries)
    /\ \E i, j \in 1..Len(queries) : wres[i] # wres[j]

\* C17: Search, GetSuggestions, GetSuggestionsForSlice and Iter leave every
\* node of the tree as it is, also while workers run side by side.
C17_ReadOnly == [][nodes' = nodes]_vars

C17_Witness ==
    /\ inserted # <<>> /\ nodes = InitTreeFromDict(inserted)
    /\ ret.op = "GetSuggestions" /\ ret.words # <<>>
    /\ \E i, j \in 1..Len(queries) :        \* one worker has sent, another computed
          wpc[i] = "done" /\ wpc[j] = "send" /\ wres[j] # <<>>

====
